---- MODULE Spec2Model ----
(***************************************************************************)
(* A model of mapcyclefile.py: the reconciliation of a mapcycle document   *)
(* against Steam Workshop collections, the duplicate-prefix detector and   *)
(* the workshop name resolver.                                             *)
(*                                                                         *)
(* A Python str is modelled as a sequence of one-character strings, so     *)
(* that startswith, split, join, lstrip, rstrip, int() and str() are       *)
(* modelled by what they do.  A Python list is a sequence, a set is a set, *)
(* a dict is a function.  An uncaught exception is the value of `exc`.     *)
(***************************************************************************)
EXTENDS Naturals, Sequences, FiniteSets

(***************************************************************************)
(* Bounds of the model.                                                    *)
(***************************************************************************)
\* longest mapcycle document drawn as an input
MaxDocLen == 4
\* longest document handed to the duplicate detector
MaxListLen == 3
\* most collections in one GetCollectionDetails response
MaxCollections == 2
\* most children in one GetCollectionDetails response, over its collections
MaxChildren == 2
\* longest mapcycle file of a whole run of the program
MaxFileLen == 2
\* most files of one installed workshop map
MaxFiles == 1

(***************************************************************************)
(* Python str primitives.                                                  *)
(***************************************************************************)
\* The characters the model's strings are made of, in code point order.
CharOrder == << " ", ".", "/", "0", "1", "2", "I", "_", "a", "b", "c", "d", "e",
                "g", "h", "k", "m", "o", "p", "r", "s", "t", "u", "w" >>

Ord(c) == CHOOSE i \in 1..Len(CharOrder) : CharOrder[i] = c

Digits == { "0", "1", "2" }

DigitValue(c) == CASE c = "0" -> 0 [] c = "1" -> 1 [] c = "2" -> 2

DigitChar(n) == CASE n = 0 -> "0" [] n = 1 -> "1" [] n = 2 -> "2"
                  [] n = 3 -> "3" [] n = 4 -> "4" [] n = 5 -> "5" [] n = 6 -> "6"
                  [] n = 7 -> "7" [] n = 8 -> "8" [] n = 9 -> "9"

\* a[i:j] with Python's clamping of the bounds (0-based, j exclusive)
Slice(a, i, j) ==
    LET hi == IF j > Len(a) THEN Len(a) ELSE j
    IN  IF i >= hi THEN << >> ELSE SubSeq(a, i + 1, hi)

\* s.startswith(p)
StartsWith(s, p) == Len(s) >= Len(p) /\ SubSeq(s, 1, Len(p)) = p

\* sub in s
Contains(s, sub) == \E i \in 0..Len(s) : Slice(s, i, i + Len(sub)) = sub

\* x < y on str: lexicographic by code point
RECURSIVE StrLess(_, _)
StrLess(x, y) ==
    IF y = << >> THEN FALSE
    ELSE IF x = << >> THEN TRUE
    ELSE IF Head(x) = Head(y) THEN StrLess(Tail(x), Tail(y))
    ELSE Ord(Head(x)) < Ord(Head(y))

\* min(x, y): the first argument wins a tie
StrMin(x, y) == IF StrLess(y, x) THEN y ELSE x

\* max(x, y): the first argument wins a tie
StrMax(x, y) == IF StrLess(x, y) THEN y ELSE x

\* s.count(c) for a one-character c
RECURSIVE CountChar(_, _)
CountChar(s, c) ==
    IF s = << >> THEN 0
    ELSE (IF Head(s) = c THEN 1 ELSE 0) + CountChar(Tail(s), c)

\* s.split(c) for a one-character c: always at least one token
RECURSIVE Split(_, _)
Split(s, c) ==
    IF \A i \in 1..Len(s) : s[i] # c THEN << s >>
    ELSE LET k == CHOOSE i \in 1..Len(s) :
                      s[i] = c /\ \A j \in 1..(i - 1) : s[j] # c
         IN  << SubSeq(s, 1, k - 1) >> \o Split(SubSeq(s, k + 1, Len(s)), c)

\* c.join(tokens)
RECURSIVE Join(_, _)
Join(tokens, c) ==
    IF tokens = << >> THEN << >>
    ELSE IF Len(tokens) = 1 THEN tokens[1]
    ELSE tokens[1] \o << c >> \o Join(Tail(tokens), c)

\* s.lstrip(chars): drops every leading character that is in the set chars
RECURSIVE LStrip(_, _)
LStrip(s, chars) ==
    IF s # << >> /\ Head(s) \in chars THEN LStrip(Tail(s), chars) ELSE s

\* s.rstrip(chars): drops every trailing character that is in the set chars
RECURSIVE RStrip(_, _)
RStrip(s, chars) ==
    IF s # << >> /\ s[Len(s)] \in chars
    THEN RStrip(SubSeq(s, 1, Len(s) - 1), chars) ELSE s

\* the characters of s, as lstrip and rstrip read their argument
CharsOf(s) == { s[i] : i \in 1..Len(s) }

\* int(s) accepts digits with single underscores between them; anything else
\* over the model's characters raises ValueError
IntValid(s) ==
    /\ s # << >>
    /\ \A i \in 1..Len(s) : s[i] \in Digits \cup { "_" }
    /\ s[1] \in Digits /\ s[Len(s)] \in Digits
    /\ \A i \in 1..(Len(s) - 1) : ~(s[i] = "_" /\ s[i + 1] = "_")

RECURSIVE IntOfDigits(_, _)
IntOfDigits(s, acc) ==
    IF s = << >> THEN acc
    ELSE IF Head(s) = "_" THEN IntOfDigits(Tail(s), acc)
    ELSE IntOfDigits(Tail(s), 10 * acc + DigitValue(Head(s)))

\* int(s) where IntValid(s)
Int(s) == IntOfDigits(s, 0)

\* str(n) for n >= 0: decimal, no leading zeros
RECURSIVE Str(_)
Str(n) == IF n < 10 THEN << DigitChar(n) >> ELSE Str(n \div 10) \o << DigitChar(n % 10) >>

(***************************************************************************)
(* The literals of the program.                                            *)
(***************************************************************************)
\* 'workshop/'
WorkshopPrefix == << "w", "o", "r", "k", "s", "h", "o", "p", "/" >>

\* '.ugc'
UgcMarker == << ".", "u", "g", "c" >>

\* '.bsp'
BspSuffix == << ".", "b", "s", "p" >>

\* '//'
CommentMarker == << "/", "/" >>

\* 'Imported workshop maps'
ImportMemo == << "I", "m", "p", "o", "r", "t", "e", "d", " ", "w", "o", "r", "k",
                 "s", "h", "o", "p", " ", "m", "a", "p", "s" >>

Range(f) == { f[i] : i \in DOMAIN f }

(***************************************************************************)
(* Line Document.                                                          *)
(***************************************************************************)
\* the elements of a that are not in b, in a's order
diff(a, b) ==
    LET bset == Range(b)
    IN  SelectSeq(a, LAMBDA aa : aa \notin bset)

\* changes that misses what b adds
changes_removed_only(a, b) == diff(a, b)

changes(a, b) == diff(a, b) \o diff(b, a)

\* The generator walks enumerate(list) while the loop body deletes from the
\* same list: position i (0-based) is read from the list as it is by then.
RECURSIVE remove_sublist_from(_, _, _)
remove_sublist_from(list, sublist, i) ==
    IF i >= Len(list) THEN list
    ELSE IF list[i + 1] = sublist[1]
            /\ Slice(list, i, i + Len(sublist)) = sublist
         THEN remove_sublist_from(
                  Slice(list, 0, i) \o Slice(list, i + Len(sublist), Len(list)),
                  sublist, i + 1)
         ELSE remove_sublist_from(list, sublist, i + 1)

remove_sublist(list, sublist) == remove_sublist_from(list, sublist, 0)

\* list.remove(x): deletes the first element equal to x (x is in the list)
ListRemove(list, x) ==
    LET k == CHOOSE i \in 1..Len(list) :
                 list[i] = x /\ \A j \in 1..(i - 1) : list[j] # x
    IN  SubSeq(list, 1, k - 1) \o SubSeq(list, k + 1, Len(list))

\* `for map in mapcycle: if map in additional_maps: mapcycle.remove(map)`:
\* the list iterator reads position i of the list as it is by then.
RECURSIVE remove_existing_from(_, _, _)
remove_existing_from(mapcycle, additional_maps, i) ==
    IF i >= Len(mapcycle) THEN mapcycle
    ELSE IF mapcycle[i + 1] \in Range(additional_maps)
         THEN remove_existing_from(ListRemove(mapcycle, mapcycle[i + 1]),
                                   additional_maps, i + 1)
         ELSE remove_existing_from(mapcycle, additional_maps, i + 1)

\* extend() by a generator that tests `map not in mapcycle` as it goes
RECURSIVE extend_missing(_, _)
extend_missing(mapcycle, additional_maps) ==
    IF additional_maps = << >> THEN mapcycle
    ELSE IF Head(additional_maps) \in Range(mapcycle)
         THEN extend_missing(mapcycle, Tail(additional_maps))
         ELSE extend_missing(Append(mapcycle, Head(additional_maps)),
                             Tail(additional_maps))

add_maps(mapcycle, additional_maps, reappend_existing) ==
    IF reappend_existing
    THEN remove_existing_from(mapcycle, additional_maps, 0) \o additional_maps
    ELSE extend_missing(mapcycle, additional_maps)

\* [ '', '// ' + comment ]
comment_lines(comment) == << << >>, CommentMarker \o << " " >> \o comment >>

add_memo(mapcycle, comment) ==
    remove_sublist(mapcycle, comment_lines(comment)) \o comment_lines(comment)

(***************************************************************************)
(* import_workshop_collections.                                            *)
(***************************************************************************)
\* one collection's children: an id is taken once, and only with filetype 0
RECURSIVE collect_children(_, _)
collect_children(children, workshop_map_ids) ==
    IF children = << >> THEN workshop_map_ids
    ELSE LET publishedfile == Head(children)
         IN  IF publishedfile.publishedfileid \notin Range(workshop_map_ids)
                /\ publishedfile.filetype = 0
             THEN collect_children(Tail(children),
                      Append(workshop_map_ids, publishedfile.publishedfileid))
             ELSE collect_children(Tail(children), workshop_map_ids)

RECURSIVE collect_map_ids(_, _)
collect_map_ids(collectiondetails, workshop_map_ids) ==
    IF collectiondetails = << >> THEN workshop_map_ids
    ELSE collect_map_ids(Tail(collectiondetails),
             collect_children(Head(collectiondetails).children, workshop_map_ids))

\* a tag filter in which an include tag overrides the exclude tags
tags_allow_include_first(map_tags, include_tags, exclude_tags) ==
    IF \E tag \in include_tags : tag \in map_tags THEN TRUE
    ELSE IF \E tag \in exclude_tags : tag \in map_tags THEN FALSE
    ELSE Cardinality(include_tags) = 0

\* whether the tag filter keeps a file with these tags
tags_allow(map_tags, include_tags, exclude_tags) ==
    IF \E tag \in exclude_tags : tag \in map_tags THEN FALSE
    ELSE IF Cardinality(include_tags) > 0
            /\ ~(\E tag \in include_tags : tag \in map_tags) THEN FALSE
    ELSE TRUE

\* the loop over the published file details, removing the filtered ids
RECURSIVE filter_map_ids(_, _, _, _)
filter_map_ids(publishedfiledetails, workshop_map_ids, include_tags, exclude_tags) ==
    IF publishedfiledetails = << >> THEN workshop_map_ids
    ELSE LET publishedfile == Head(publishedfiledetails)
         IN  filter_map_ids(Tail(publishedfiledetails),
                 IF tags_allow(publishedfile.tags, include_tags, exclude_tags)
                 THEN workshop_map_ids
                 ELSE ListRemove(workshop_map_ids, publishedfile.publishedfileid),
                 include_tags, exclude_tags)

\* [ 'workshop/{0}'.format(map) for map in workshop_map_ids ]
workshop_maps_of(workshop_map_ids) ==
    [ i \in 1..Len(workshop_map_ids) |-> WorkshopPrefix \o workshop_map_ids[i] ]

\* map.startswith('workshop/')
is_workshop_map(map) == StartsWith(map, WorkshopPrefix)

\* a filter that takes the blank lines out with the workshop maps
is_named_non_workshop_map(map) == ~is_workshop_map(map) /\ Len(map) > 0

is_not_workshop_map(map) == ~is_workshop_map(map)

existing_workshop_maps(mapcycle) == SelectSeq(mapcycle, is_workshop_map)

\* a rebuild that leaves the removal of workshop maps to add_maps
rebuild_keeping_workshop_maps(mapcycle, workshop_maps) ==
    add_maps(add_memo(mapcycle, ImportMemo), workshop_maps, TRUE)

\* the mapcycle with its workshop maps removed and the wanted ones added
rebuild_mapcycle(mapcycle, workshop_maps) ==
    add_maps(add_memo(SelectSeq(mapcycle, is_not_workshop_map), ImportMemo),
             workshop_maps, TRUE)

\* the tail of import_workshop_collections: the mapcycle it returns
reconcile(mapcycle, workshop_maps) ==
    IF Len(changes(existing_workshop_maps(mapcycle), workshop_maps)) > 0
    THEN rebuild_mapcycle(mapcycle, workshop_maps)
    ELSE mapcycle

(***************************************************************************)
(* Prefix Duplicate Detector.                                              *)
(***************************************************************************)
is_valid_map_name(map) == (~StartsWith(map, CommentMarker)) /\ Len(map) > 0

is_workshop_short_name(map) ==
    StartsWith(map, WorkshopPrefix) /\ ~Contains(map, UgcMarker)

\* the prefixes of the names with more than i tokens only
prefix_map_names_of_longer(map_name_sections, i) ==
    LET long == SelectSeq(map_name_sections, LAMBDA p : Len(p) > i)
    IN  [ k \in 1..Len(long) |-> Join(Slice(long[k], 0, i), "_") ]

\* [ '_'.join(p[0:i]) for p in map_name_sections if len(p) > i-1 ]
prefix_map_names(map_name_sections, i) ==
    LET long == SelectSeq(map_name_sections, LAMBDA p : Len(p) > i - 1)
    IN  [ k \in 1..Len(long) |-> Join(Slice(long[k], 0, i), "_") ]

\* [ map.split('_') for map in names ]
split_names(names) == [ k \in 1..Len(names) |-> Split(names[k], "_") ]

\* the truth value of `s.add(x)`: set.add returns None
set_add_result == FALSE

\* set(p for p in prefixes if p == target or s.add(p))
target_duplicates(prefixes, target) ==
    { prefixes[k] : k \in { j \in 1..Len(prefixes) :
                               prefixes[j] = target \/ set_add_result } }

list_map_prefix_duplicates(map, maplist) ==
    LET split_map_name == Split(map, "_")
        max_prefix_count == Len(split_map_name)
        map_name_sections ==
            split_names(SelectSeq(maplist,
                LAMBDA m : is_valid_map_name(m) /\ ~is_workshop_map(m)))
    IN  UNION { target_duplicates(prefix_map_names(map_name_sections, i),
                                  Join(Slice(split_map_name, 0, i), "_"))
                : i \in 2..max_prefix_count }

\* set(map for map in names if map in s or s.add(map)): the values met twice
RECURSIVE seen_twice(_, _)
seen_twice(names, s) ==
    IF names = << >> THEN { }
    ELSE IF Head(names) \in s
         THEN { Head(names) } \cup seen_twice(Tail(names), s)
         ELSE seen_twice(Tail(names), s \cup { Head(names) })

\* the mapcycle's plain map names
plain_map_names(mapcycle) ==
    SelectSeq(mapcycle,
        LAMBDA map : (~(StartsWith(map, CommentMarker) \/ is_workshop_map(map)))
                     /\ Len(map) > 0)

\* the loop over itertools.combinations(map_names, 2)
containment_prefixes(map_names) ==
    { StrMin(map_names[p[1]], map_names[p[2]]) :
        p \in { q \in (1..Len(map_names)) \X (1..Len(map_names)) :
                  /\ q[1] < q[2]
                  /\ StartsWith(StrMax(map_names[q[1]], map_names[q[2]]),
                                StrMin(map_names[q[1]], map_names[q[2]])) } }

\* max() of a non-empty set of numbers
MaxOf(S) == CHOOSE x \in S : \A y \in S : y <= x

\* the result is [raised, value]: max() of an empty list raises ValueError
list_map_shared_prefixes(mapcycle) ==
    LET map_names == plain_map_names(mapcycle)
    IN  IF map_names = << >>
        THEN [ raised |-> "ValueError", value |-> << >> ]
        ELSE LET max_prefix_count ==
                     MaxOf({ CountChar(map_names[k], "_") : k \in 1..Len(map_names) })
                 map_name_sections == split_names(map_names)
                 map_duplicate_prefixes ==
                     UNION { seen_twice(prefix_map_names(map_name_sections, i), { })
                             : i \in 2..max_prefix_count }
                     \cup containment_prefixes(map_names)
             IN  [ raised |-> "None",
                   value |-> [ map_prefix \in map_duplicate_prefixes |->
                                 SelectSeq(map_names,
                                     LAMBDA map : StartsWith(map, map_prefix)) ] ]

(***************************************************************************)
(* The workshop directory: what os.listdir gives for <dir>/content/440, a  *)
(* sequence of [name, files], files being os.listdir of that entry.        *)
(* A workshop_directory is << >> (None) or << listing >>.                  *)
(***************************************************************************)
\* d[key] = value on a dict, kept as the sequence of its items
dict_set(d, key, value) ==
    IF \E k \in 1..Len(d) : d[k][1] = key
    THEN [ k \in 1..Len(d) |-> IF d[k][1] = key THEN << key, value >> ELSE d[k] ]
    ELSE Append(d, << key, value >>)

dict_value(d, key) == d[CHOOSE k \in 1..Len(d) : d[k][1] = key][2]

\* for f in os.listdir(workshop_map_path): workshop_map_names[f.rstrip('.bsp')] = i
RECURSIVE names_of_files(_, _, _)
names_of_files(files, i, workshop_map_names) ==
    IF files = << >> THEN workshop_map_names
    ELSE names_of_files(Tail(files), i,
             dict_set(workshop_map_names,
                      RStrip(Head(files), CharsOf(BspSuffix)), i))

\* for i in os.listdir(workshop_map_directory): if i in workshop_map_ids: ...
RECURSIVE names_of_dirs(_, _, _)
names_of_dirs(listing, workshop_map_ids, workshop_map_names) ==
    IF listing = << >> THEN workshop_map_names
    ELSE names_of_dirs(Tail(listing), workshop_map_ids,
             IF Head(listing).name \in Range(workshop_map_ids)
             THEN names_of_files(Head(listing).files, Head(listing).name,
                                 workshop_map_names)
             ELSE workshop_map_names)

\* for map, id in workshop_map_names.items(): ...
RECURSIVE collect_dupes(_, _, _)
collect_dupes(items, mapcycle, possible_dupes) ==
    IF items = << >> THEN possible_dupes
    ELSE LET dupes == list_map_prefix_duplicates(Head(items)[1], mapcycle)
         IN  collect_dupes(Tail(items), mapcycle,
                 IF Cardinality(dupes) > 0
                 THEN dict_set(possible_dupes,
                               WorkshopPrefix \o Head(items)[2], dupes)
                 ELSE possible_dupes)

\* [ map.lstrip('workshop/') for map in mapcycle if map.startswith('workshop/') ]
stripped_workshop_ids(mapcycle) ==
    LET maps == existing_workshop_maps(mapcycle)
    IN  [ k \in 1..Len(maps) |-> LStrip(maps[k], CharsOf(WorkshopPrefix)) ]

\* the result as a function from 'workshop/<id>' to the set of its dupes
list_possible_workshop_duplicates(mapcycle, workshop_directory) ==
    IF workshop_directory # << >>
    THEN LET d == collect_dupes(
                      names_of_dirs(workshop_directory[1],
                                    stripped_workshop_ids(mapcycle), << >>),
                      mapcycle, << >>)
         IN  [ key \in { d[k][1] : k \in 1..Len(d) } |-> dict_value(d, key) ]
    ELSE [ key \in { } |-> { } ]

(***************************************************************************)
(* Name Resolver.                                                          *)
(***************************************************************************)
\* << >> is None, << name >> the display name
get_workshop_displayname(map_id, workshop_directory) ==
    LET listing == workshop_directory[1]
        found == { k \in 1..Len(listing) : listing[k].name = Str(map_id) }
    IN  IF found # { } /\ (listing[CHOOSE k \in found : TRUE]).files # << >>
        THEN << RStrip((listing[CHOOSE k \in found : TRUE]).files[1],
                       CharsOf(BspSuffix)) >>
        ELSE << >>

\* the result is [raised, value]: int() raises ValueError
resolve_workshop_shortname(workshop_map, workshop_directory) ==
    IF is_workshop_short_name(workshop_map)
    THEN LET id_text == LStrip(workshop_map, CharsOf(WorkshopPrefix))
         IN  IF ~IntValid(id_text)
             THEN [ raised |-> "ValueError", value |-> << >> ]
             ELSE LET map_id == Int(id_text)
                      display_name == get_workshop_displayname(map_id, workshop_directory)
                  IN  IF display_name # << >>
                      THEN [ raised |-> "None",
                             value |-> WorkshopPrefix \o display_name[1]
                                       \o UgcMarker \o Str(map_id) ]
                      ELSE [ raised |-> "None", value |-> workshop_map ]
    ELSE [ raised |-> "None", value |-> workshop_map ]

(***************************************************************************)
(* The state of a run.                                                     *)
(***************************************************************************)
VARIABLES
    pc,                 \* where the run is
    args,               \* the parsed command line
    disk,               \* the mapcycle file and the backups beside it
    disk0,              \* the disk when the run started
    steam,              \* what the Steam Web API answers
    workshop,           \* the listing of <workshop_dir>/content/440
    mapcycle,           \* main's mapcycle
    new_mapcycle,       \* main's new_mapcycle
    workshop_map_ids,   \* import_workshop_collections' workshop_map_ids
    workshop_maps,      \* import_workshop_collections' workshop_maps
    possible_dupes,     \* main's possible_dupes_dict, as [raised, value]
    exc,                \* the uncaught exception that ended the run, or "None"
    exitcode,           \* << >> while running, then << status >>
    events,             \* what the run has done so far
    call                \* the last call of a detector or of the resolver

vars == << pc, args, disk, disk0, steam, workshop, mapcycle, new_mapcycle,
           workshop_map_ids, workshop_maps, possible_dupes, exc, exitcode, events,
           call >>

(***************************************************************************)
(* The inputs the model draws.                                             *)
(***************************************************************************)
\* every sequence over S of length at most n
SeqsUpTo(S, n) == UNION { [ 1..k -> S ] : k \in 0..n }

BlankLine == << >>

MemoLine == comment_lines(ImportMemo)[2]

CommentLine == << "/", "/", "c" >>

Map_c_a == << "c", "_", "a" >>

Map_c_ad == << "c", "_", "a", "d" >>

Map_c_a_d == << "c", "_", "a", "_", "d" >>

Map_c_a_e == << "c", "_", "a", "_", "e" >>

\* a name that ends in a character of '.bsp'
Map_c_a_p == << "c", "_", "a", "_", "p" >>

Map_d_a_d == << "d", "_", "a", "_", "d" >>

\* published file ids, as the API gives them
FileIds == { << "1" >>, << "2" >> }

Workshop_1 == WorkshopPrefix \o << "1" >>

Workshop_2 == WorkshopPrefix \o << "2" >>

\* a short name whose id is written with a leading zero
Workshop_01 == WorkshopPrefix \o << "0", "1" >>

\* a workshop line that names the map and carries no .ugc id
Workshop_c_a == WorkshopPrefix \o Map_c_a

\* the long name of workshop map 1
Workshop_long_1 == WorkshopPrefix \o Map_c_a_d \o UgcMarker \o << "1" >>

WorkshopTags == { "Payload", "Halloween" }

\* the API's answer for one id
child_of(id, filetype) == [ publishedfileid |-> id, filetype |-> filetype[id] ]

\* ISteamRemoteStorage/GetCollectionDetails: one entry per collection asked for
CollectionDetailsResponse ==
    [ k \in 1..Len(steam.collections) |->
        [ children |->
            [ j \in 1..Len(steam.collections[k]) |->
                child_of(steam.collections[k][j], steam.filetype) ] ] ]

\* ISteamRemoteStorage/GetPublishedFileDetails: one entry per id asked for
PublishedFileDetailsResponse(fileids) ==
    [ k \in 1..Len(fileids) |->
        [ publishedfileid |-> fileids[k], tags |-> steam.tags[fileids[k]] ] ]

NoArgs ==
    [ api_key |-> TRUE, dry_run |-> FALSE, backup |-> FALSE, collection |-> << >>,
      include_tags |-> { }, exclude_tags |-> { }, long_workshop_names |-> FALSE,
      list_duplicates |-> FALSE, workshop_dir |-> FALSE ]

NoCall == [ fn |-> "none" ]

NoDupes == [ raised |-> "None", value |-> << >> ]

\* what every initial state shares
InitRun ==
    /\ disk0 = disk
    /\ new_mapcycle = << >>
    /\ workshop_map_ids = << >>
    /\ workshop_maps = << >>
    /\ possible_dupes = NoDupes
    /\ exc = "None"
    /\ exitcode = << >>
    /\ events = { }
    /\ call = NoCall

(***************************************************************************)
(* The run of the program, step by step.                                   *)
(***************************************************************************)
\* an uncaught exception: the traceback is printed, the exit status is 1
Raise(exception) ==
    /\ exc' = exception
    /\ exitcode' = << 1 >>
    /\ pc' = "exited"

\* what the except clause of a remote call makes of a failure: the builtin
\* ConnectionError is caught, and the handler's use of the name sys, which the
\* module never imports, raises NameError; requests' own ConnectionError is
\* no builtin ConnectionError and is not caught
remote_failure(error) == IF error = "ConnectionError" THEN "NameError" ELSE error

RemoteErrors == { "ConnectionError", "requests.exceptions.ConnectionError" }

\* __main__: the API key is needed before anything is read
ParseArgs ==
    /\ pc = "args"
    /\ IF args.api_key
       THEN pc' = "read" /\ UNCHANGED << exc, exitcode >>
       ELSE Raise("ValueError")
    /\ UNCHANGED << args, disk, disk0, steam, workshop, mapcycle, new_mapcycle,
                    workshop_map_ids, workshop_maps, possible_dupes, events, call >>

\* get_file_as_lines: a missing file reads as no lines
get_file_as_lines(file) == IF file.exists THEN file.lines ELSE << >>

ReadMapcycle ==
    /\ pc = "read"
    /\ mapcycle' = get_file_as_lines(disk)
    /\ new_mapcycle' = get_file_as_lines(disk)
    /\ pc' = IF Len(args.collection) > 0 THEN "collections" ELSE "resolve"
    /\ UNCHANGED << args, disk, disk0, steam, workshop, workshop_map_ids,
                    workshop_maps, possible_dupes, exc, exitcode, events, call >>

\* import_workshop_collections up to the list of map ids
GetCollectionDetails ==
    /\ pc = "collections"
    /\ workshop_map_ids' = collect_map_ids(CollectionDetailsResponse, << >>)
    /\ events' = events \cup { "collections" }
    /\ pc' = "details"
    /\ UNCHANGED << args, disk, disk0, steam, workshop, mapcycle, new_mapcycle,
                    workshop_maps, possible_dupes, exc, exitcode, call >>

GetCollectionDetailsFails ==
    /\ pc = "collections"
    /\ \E error \in RemoteErrors : Raise(remote_failure(error))
    /\ events' = events \cup { "remote failure" }
    /\ UNCHANGED << args, disk, disk0, steam, workshop, mapcycle, new_mapcycle,
                    workshop_map_ids, workshop_maps, possible_dupes, call >>

\* import_workshop_collections from the second request to the tag filter
GetPublishedFileDetails ==
    /\ pc = "details"
    /\ workshop_map_ids' =
           filter_map_ids(PublishedFileDetailsResponse(workshop_map_ids),
                          workshop_map_ids, args.include_tags, args.exclude_tags)
    /\ events' = events \cup { "details" }
    /\ pc' = "reconcile"
    /\ UNCHANGED << args, disk, disk0, steam, workshop, mapcycle, new_mapcycle,
                    workshop_maps, possible_dupes, exc, exitcode, call >>

GetPublishedFileDetailsFails ==
    /\ pc = "details"
    /\ \E error \in RemoteErrors : Raise(remote_failure(error))
    /\ events' = events \cup { "remote failure" }
    /\ UNCHANGED << args, disk, disk0, steam, workshop, mapcycle, new_mapcycle,
                    workshop_map_ids, workshop_maps, possible_dupes, call >>

\* the rest of import_workshop_collections, and main's assignment of its result
Reconcile ==
    /\ pc = "reconcile"
    /\ workshop_maps' = workshop_maps_of(workshop_map_ids)
    /\ new_mapcycle' = reconcile(mapcycle, workshop_maps_of(workshop_map_ids))
    /\ events' = events \cup { "reconciled" }
    /\ pc' = "resolve"
    /\ UNCHANGED << args, disk, disk0, steam, workshop, mapcycle,
                    workshop_map_ids, possible_dupes, exc, exitcode, call >>

\* main's workshop_dir argument: << >> is None
workshop_dir == IF args.workshop_dir THEN << workshop >> ELSE << >>

\* the loop of main that resolves the short names, as [raised, value]
resolve_all(maps, workshop_directory) ==
    LET resolved == [ i \in 1..Len(maps) |->
                        IF is_workshop_short_name(maps[i])
                        THEN resolve_workshop_shortname(maps[i], workshop_directory)
                        ELSE [ raised |-> "None", value |-> maps[i] ] ]
    IN  IF \E i \in 1..Len(maps) : resolved[i].raised # "None"
        THEN [ raised |-> "ValueError", value |-> << >> ]
        ELSE [ raised |-> "None",
               value |-> [ i \in 1..Len(maps) |-> resolved[i].value ] ]

ResolveLongNames ==
    /\ pc = "resolve"
    /\ IF args.long_workshop_names /\ args.workshop_dir
       THEN LET resolved == resolve_all(new_mapcycle, workshop_dir)
            IN  IF resolved.raised = "None"
                THEN /\ new_mapcycle' = resolved.value
                     /\ pc' = "duplicates"
                     /\ UNCHANGED << exc, exitcode >>
                ELSE /\ Raise(resolved.raised)
                     /\ UNCHANGED new_mapcycle
       ELSE /\ pc' = "duplicates"
            /\ UNCHANGED << new_mapcycle, exc, exitcode >>
    /\ UNCHANGED << args, disk, disk0, steam, workshop, mapcycle,
                    workshop_map_ids, workshop_maps, possible_dupes, events, call >>

\* dict.update: the second dict's keys win
dict_update(d, e) ==
    [ key \in (DOMAIN d) \cup (DOMAIN e) |-> IF key \in DOMAIN e THEN e[key] ELSE d[key] ]

\* main's possible_dupes_dict, as [raised, value]
list_duplicates(maps, workshop_directory) ==
    LET shared == list_map_shared_prefixes(maps)
    IN  IF shared.raised # "None" THEN shared
        ELSE [ raised |-> "None",
               value |-> dict_update(shared.value,
                             list_possible_workshop_duplicates(maps, workshop_directory)) ]

ListDuplicates ==
    /\ pc = "duplicates"
    /\ IF args.list_duplicates
       THEN LET dupes == list_duplicates(new_mapcycle, workshop_dir)
            IN  /\ possible_dupes' = dupes
                /\ IF dupes.raised = "None"
                   THEN pc' = "write" /\ UNCHANGED << exc, exitcode >>
                   ELSE Raise(dupes.raised)
       ELSE /\ pc' = "write"
            /\ UNCHANGED << possible_dupes, exc, exitcode >>
    /\ UNCHANGED << args, disk, disk0, steam, workshop, mapcycle, new_mapcycle,
                    workshop_map_ids, workshop_maps, events, call >>

\* additions + deletions > 0
is_modified(old, new) == Len(diff(new, old)) + Len(diff(old, new)) > 0

\* a write that does not look at --dry-run
writes_back_in_dry_run(old, new, dry_run) == is_modified(old, new)

\* whether main writes the file
writes_back(old, new, dry_run) == is_modified(old, new) /\ ~dry_run

\* whether main copies the file to the backups first
copies_backup(file, backup) == backup /\ file.exists

\* the end of main: the backup copy and the write
WriteBack ==
    /\ pc = "write"
    /\ IF writes_back(mapcycle, new_mapcycle, args.dry_run)
       THEN /\ disk' = [ exists |-> TRUE,
                         lines |-> new_mapcycle,
                         backups |-> IF copies_backup(disk, args.backup)
                                     THEN disk.backups \cup { disk.lines }
                                     ELSE disk.backups ]
            /\ events' = events \cup { "written" }
       ELSE UNCHANGED << disk, events >>
    /\ pc' = "done"
    /\ exitcode' = << 0 >>
    /\ UNCHANGED << args, disk0, steam, workshop, mapcycle, new_mapcycle,
                    workshop_map_ids, workshop_maps, possible_dupes, exc, call >>

(***************************************************************************)
(* The whole program: every run of main.                                   *)
(***************************************************************************)
MainFiles ==
    { [ exists |-> FALSE, lines |-> << >>, backups |-> { } ] } \cup
    { [ exists |-> TRUE, lines |-> lines, backups |-> { } ] :
        lines \in SeqsUpTo({ Map_c_a, Map_c_a_d, Workshop_1, Workshop_c_a }, MaxFileLen) }

\* the installed maps of the runs of main
MainWorkshop == << [ name |-> << "1" >>, files |-> << Map_c_a_d \o BspSuffix >> ] >>

NoTags == [ id \in FileIds |-> { } ]

AllMaps == [ id \in FileIds |-> 0 ]

InitMain ==
    /\ pc = "args"
    /\ disk \in MainFiles
    /\ \E key, dry, backup, long, dupes, dir \in BOOLEAN :
         \E collection \in { << >>, << << "7" >> >> } :
            args = [ api_key |-> key, dry_run |-> dry, backup |-> backup,
                     collection |-> collection,
                     include_tags |-> { }, exclude_tags |-> { },
                     long_workshop_names |-> long, list_duplicates |-> dupes,
                     workshop_dir |-> dir ]
    /\ \E children \in SeqsUpTo(FileIds, 1) :
         steam = [ collections |-> IF Len(args.collection) > 0
                                   THEN << children >> ELSE << >>,
                   filetype |-> AllMaps, tags |-> NoTags ]
    /\ workshop = MainWorkshop
    /\ mapcycle = << >>
    /\ InitRun

Next ==
    \/ ParseArgs
    \/ ReadMapcycle
    \/ GetCollectionDetails
    \/ GetCollectionDetailsFails
    \/ GetPublishedFileDetails
    \/ GetPublishedFileDetailsFails
    \/ Reconcile
    \/ ResolveLongNames
    \/ ListDuplicates
    \/ WriteBack

Spec == InitMain /\ [][Next]_vars

(***************************************************************************)
(* import_workshop_collections alone: every call of it.                    *)
(***************************************************************************)
NextImport ==
    \/ GetCollectionDetails
    \/ GetCollectionDetailsFails
    \/ GetPublishedFileDetails
    \/ GetPublishedFileDetailsFails
    \/ Reconcile

\* the children in a response, over its collections
RECURSIVE total_children(_)
total_children(collections) ==
    IF collections = << >> THEN 0
    ELSE Len(Head(collections)) + total_children(Tail(collections))

\* the responses of n collections
collections_of(n) ==
    { collections \in [ 1..n -> SeqsUpTo(FileIds, MaxChildren) ] :
        total_children(collections) <= MaxChildren }

\* the collection ids asked for: only their number matters
collection_ids(n) == [ k \in 1..n |-> << "7" >> ]

\* calls that differ in the mapcycle and in the maps of one collection
InitReconcile ==
    /\ pc = "collections"
    /\ mapcycle \in SeqsUpTo({ BlankLine, MemoLine, Map_c_a, Workshop_1, Workshop_2 },
                             MaxDocLen)
    /\ args = [ NoArgs EXCEPT !.collection = collection_ids(1) ]
    /\ \E children \in SeqsUpTo(FileIds, MaxChildren) :
         steam = [ collections |-> << children >>,
                   filetype |-> AllMaps, tags |-> NoTags ]
    /\ disk = [ exists |-> TRUE, lines |-> mapcycle, backups |-> { } ]
    /\ workshop = << >>
    /\ InitRun

SpecReconcile == InitReconcile /\ [][NextImport]_vars

\* calls that differ in the collections, the file types, the tags and the filters
InitFilter ==
    /\ pc = "collections"
    /\ mapcycle = << Workshop_1 >>
    /\ \E n \in 1..MaxCollections :
         \E collections \in collections_of(n) :
            \E filetype \in [ FileIds -> { 0, 2 } ] :
               \E tags \in [ FileIds -> SUBSET WorkshopTags ] :
                  \E include, exclude \in SUBSET WorkshopTags :
                     /\ args = [ NoArgs EXCEPT !.collection = collection_ids(n),
                                               !.include_tags = include,
                                               !.exclude_tags = exclude ]
                     /\ steam = [ collections |-> collections,
                                  filetype |-> filetype, tags |-> tags ]
    /\ disk = [ exists |-> TRUE, lines |-> mapcycle, backups |-> { } ]
    /\ workshop = << >>
    /\ InitRun

SpecFilter == InitFilter /\ [][NextImport]_vars

(***************************************************************************)
(* The detector's functions alone: every call of them on a mapcycle.       *)
(***************************************************************************)
\* the names of the files of installed maps
BspFiles == { Map_c_a_d \o BspSuffix, Map_c_a_p \o BspSuffix }

\* the listings of content/440 with the given entries, in any order
listings_of(names) ==
    { listing \in [ 1..Cardinality(names) ->
                      [ name : names, files : SeqsUpTo(BspFiles, MaxFiles) ] ] :
        \A i, j \in 1..Cardinality(names) :
           listing[i].name = listing[j].name => i = j }

\* the workshop directories: every set of installed ids, files and order
WorkshopListings == UNION { listings_of(names) : names \in SUBSET FileIds }

\* the names a caller asks about
TargetNames == { << "c" >>, Map_c_a, Map_c_a_d, Map_d_a_d }

InitDetect ==
    /\ pc = "detect"
    /\ mapcycle \in SeqsUpTo({ BlankLine, CommentLine, Map_c_a, Map_c_ad, Map_c_a_d,
                               Map_c_a_e, Map_d_a_d, Workshop_1, Workshop_long_1 },
                             MaxListLen)
    /\ args = NoArgs
    /\ steam = [ collections |-> << >>, filetype |-> AllMaps, tags |-> NoTags ]
    /\ disk = [ exists |-> TRUE, lines |-> mapcycle, backups |-> { } ]
    /\ workshop = << >>
    /\ InitRun

CallPrefixDuplicates ==
    /\ pc = "detect"
    /\ call = NoCall
    /\ \E map \in TargetNames :
          call' = [ fn |-> "list_map_prefix_duplicates", map |-> map,
                    result |-> list_map_prefix_duplicates(map, mapcycle) ]
    /\ UNCHANGED << pc, args, disk, disk0, steam, workshop, mapcycle, new_mapcycle,
                    workshop_map_ids, workshop_maps, possible_dupes, exc, exitcode,
                    events >>

CallSharedPrefixes ==
    /\ pc = "detect"
    /\ call = NoCall
    /\ call' = [ fn |-> "list_map_shared_prefixes",
                 result |-> list_map_shared_prefixes(mapcycle) ]
    /\ UNCHANGED << pc, args, disk, disk0, steam, workshop, mapcycle, new_mapcycle,
                    workshop_map_ids, workshop_maps, possible_dupes, exc, exitcode,
                    events >>

CallWorkshopDuplicates ==
    /\ pc = "detect"
    /\ call = NoCall
    /\ \E workshop_directory \in { << >> } \cup { << l >> : l \in WorkshopListings } :
          call' = [ fn |-> "list_possible_workshop_duplicates",
                    workshop_directory |-> workshop_directory,
                    result |-> list_possible_workshop_duplicates(mapcycle,
                                                                 workshop_directory) ]
    /\ UNCHANGED << pc, args, disk, disk0, steam, workshop, mapcycle, new_mapcycle,
                    workshop_map_ids, workshop_maps, possible_dupes, exc, exitcode,
                    events >>

NextDetect ==
    \/ CallPrefixDuplicates
    \/ CallSharedPrefixes
    \/ CallWorkshopDuplicates

SpecDetect == InitDetect /\ [][NextDetect]_vars

(***************************************************************************)
(* The resolver alone: every call of it on one entry.                      *)
(***************************************************************************)
\* the entries handed to the resolver
ResolverEntries ==
    { BlankLine, CommentLine, Map_c_a, Map_c_a_d, Workshop_1, Workshop_2,
      Workshop_01, Workshop_c_a, Workshop_long_1 }

InitResolve ==
    /\ pc = "resolver"
    /\ \E workshop_map \in ResolverEntries : mapcycle = << workshop_map >>
    /\ workshop \in WorkshopListings
    /\ args = [ NoArgs EXCEPT !.workshop_dir = TRUE ]
    /\ steam = [ collections |-> << >>, filetype |-> AllMaps, tags |-> NoTags ]
    /\ disk = [ exists |-> TRUE, lines |-> mapcycle, backups |-> { } ]
    /\ InitRun

CallResolve ==
    /\ pc = "resolver"
    /\ call = NoCall
    /\ call' = [ fn |-> "resolve_workshop_shortname",
                 result |-> resolve_workshop_shortname(mapcycle[1], workshop_dir) ]
    /\ UNCHANGED << pc, args, disk, disk0, steam, workshop, mapcycle, new_mapcycle,
                    workshop_map_ids, workshop_maps, possible_dupes, exc, exitcode,
                    events >>

NextResolve == CallResolve

SpecResolve == InitResolve /\ [][NextResolve]_vars

(***************************************************************************)
(* What the claims are stated with.                                        *)
(***************************************************************************)
\* the entries of a document that start with 'workshop/', in order
WorkshopEntries(document) ==
    SelectSeq(document, LAMBDA entry : StartsWith(entry, WorkshopPrefix))

\* the entries of a document that do not start with 'workshop/', in order
OtherEntries(document) ==
    SelectSeq(document, LAMBDA entry : ~StartsWith(entry, WorkshopPrefix))

\* the memo block of an import
MemoBlock == << BlankLine, MemoLine >>

\* the places where a contiguous memo block starts
MemoBlockStarts(document) ==
    { i \in 1..(Len(document) - 1) :
        document[i] = BlankLine /\ document[i + 1] = MemoLine }

\* the places of the lines that belong to a memo block
MemoBlockPlaces(document) ==
    MemoBlockStarts(document) \cup { i + 1 : i \in MemoBlockStarts(document) }

\* the document without the places in skip
RECURSIVE WithoutPlaces(_, _, _)
WithoutPlaces(document, skip, i) ==
    IF i > Len(document) THEN << >>
    ELSE (IF i \in skip THEN << >> ELSE << document[i] >>)
         \o WithoutPlaces(document, skip, i + 1)

\* whether a can be had from b by deleting entries
RECURSIVE IsSubsequence(_, _)
IsSubsequence(a, b) ==
    IF a = << >> THEN TRUE
    ELSE IF b = << >> THEN FALSE
    ELSE IF Head(a) = Head(b) THEN IsSubsequence(Tail(a), Tail(b))
    ELSE IsSubsequence(a, Tail(b))

\* how often an entry occurs in a document
Occurrences(document, entry) ==
    Cardinality({ i \in 1..Len(document) : document[i] = entry })

\* the last n entries of a document
LastEntries(document, n) == SubSeq(document, Len(document) - n + 1, Len(document))

\* the reconcile step has run
Reconciled == "reconciled" \in events

\* the existing and the desired workshop entries differ as sets
SetsDiffer == Range(WorkshopEntries(mapcycle)) # Range(workshop_maps)

(***************************************************************************)
(* C1: reconcile returns the document it was given, as an ordered          *)
(* sequence, exactly when the set of its entries that start with           *)
(* 'workshop/' equals the set of desired entries; the order and the        *)
(* multiplicity of the existing workshop entries do not matter.            *)
(***************************************************************************)
C1_NoOpIffSameSets ==
    Reconciled =>
        ((new_mapcycle = mapcycle) <=>
            (Range(WorkshopEntries(mapcycle)) = Range(workshop_maps)))

\* a no-op although the existing entries differ from the desired list in
\* order or in multiplicity
C1_Witness ==
    /\ Reconciled
    /\ new_mapcycle = mapcycle
    /\ Len(workshop_maps) = 2
    /\ WorkshopEntries(mapcycle) # workshop_maps
    /\ Len(WorkshopEntries(mapcycle)) > 2

(***************************************************************************)
(* C2, as claimed: the entries of the input that do not start with         *)
(* 'workshop/', memo lines included, are a subsequence of the result.      *)
(***************************************************************************)
C2_NonWorkshopKeptInOrder ==
    Reconciled => IsSubsequence(OtherEntries(mapcycle), new_mapcycle)

(***************************************************************************)
(* C2, amended: the entries of the input that do not start with            *)
(* 'workshop/' and are not the lines of a memo block among them are a      *)
(* subsequence of the result, and every entry of the input that does not   *)
(* start with 'workshop/' still occurs in the result; a memo block of the  *)
(* input may be moved to the end.                                          *)
(***************************************************************************)
C2_NonMemoKeptInOrder ==
    Reconciled =>
        LET others == OtherEntries(mapcycle)
        IN  /\ IsSubsequence(WithoutPlaces(others, MemoBlockPlaces(others), 1),
                             new_mapcycle)
            /\ \A i \in 1..Len(others) : others[i] \in Range(new_mapcycle)

\* a rewrite of a document that holds a memo block followed by a map
C2_Witness ==
    /\ Reconciled
    /\ new_mapcycle # mapcycle
    /\ \E i \in MemoBlockStarts(OtherEntries(mapcycle)) :
          /\ i + 2 <= Len(OtherEntries(mapcycle))
          /\ OtherEntries(mapcycle)[i + 2] = Map_c_a
    /\ ~IsSubsequence(OtherEntries(mapcycle), new_mapcycle)

(***************************************************************************)
(* C3: when the existing and the desired workshop sets differ, the result  *)
(* holds no entry starting with 'workshop/' but the desired ones, each     *)
(* desired entry once, it ends with the memo block followed by the desired *)
(* entries in their order, and no workshop entry of the input that is not  *)
(* desired is left.                                                        *)
(***************************************************************************)
C3_RewriteHoldsDesiredOnly ==
    (Reconciled /\ SetsDiffer) =>
        /\ \A i \in 1..Len(new_mapcycle) :
              StartsWith(new_mapcycle[i], WorkshopPrefix)
                  => new_mapcycle[i] \in Range(workshop_maps)
        /\ \A k \in 1..Len(workshop_maps) :
              Occurrences(new_mapcycle, workshop_maps[k]) = 1
        /\ Len(new_mapcycle) >= 2 + Len(workshop_maps)
        /\ LastEntries(new_mapcycle, 2 + Len(workshop_maps)) = MemoBlock \o workshop_maps
        /\ \A i \in 1..Len(mapcycle) :
              (StartsWith(mapcycle[i], WorkshopPrefix)
                  /\ mapcycle[i] \notin Range(workshop_maps))
                  => mapcycle[i] \notin Range(new_mapcycle)

\* a rewrite that drops a workshop entry of the input and moves another
C3_Witness ==
    /\ Reconciled
    /\ SetsDiffer
    /\ workshop_maps = << Workshop_1 >>
    /\ Workshop_2 \in Range(mapcycle)
    /\ Workshop_1 \in Range(mapcycle)
    /\ Map_c_a \in Range(mapcycle)
    /\ mapcycle[1] = Workshop_1

(***************************************************************************)
(* C5: after a rewrite the document holds the memo block                   *)
(* ['', '// Imported workshop maps'] exactly once, as the two lines before *)
(* the imported entries; so no document holds more than one memo block     *)
(* after a reconcile run.                                                  *)
(***************************************************************************)
C5_OneMemoBlock ==
    (Reconciled /\ new_mapcycle # mapcycle) =>
        /\ Cardinality(MemoBlockStarts(new_mapcycle)) = 1
        /\ MemoBlockStarts(new_mapcycle) = { Len(new_mapcycle) - Len(workshop_maps) - 1 }

(***************************************************************************)
(* C6: the desired entries are 'workshop/<id>' for each id that is a       *)
(* member of type 0 of a collection, carries no exclude tag and, when      *)
(* include tags are given, carries one of them; each id once, in the order *)
(* of first appearance over the collections.                               *)
(***************************************************************************)
RECURSIVE Flatten(_)
Flatten(seqs) == IF seqs = << >> THEN << >> ELSE Head(seqs) \o Flatten(Tail(seqs))

RECURSIVE FirstAppearances(_, _)
FirstAppearances(ids, seen) ==
    IF ids = << >> THEN << >>
    ELSE IF Head(ids) \in seen THEN FirstAppearances(Tail(ids), seen)
    ELSE << Head(ids) >> \o FirstAppearances(Tail(ids), seen \cup { Head(ids) })

IsWanted(id) ==
    /\ steam.filetype[id] = 0
    /\ steam.tags[id] \cap args.exclude_tags = { }
    /\ args.include_tags = { } \/ steam.tags[id] \cap args.include_tags # { }

WantedIds == SelectSeq(FirstAppearances(Flatten(steam.collections), { }), IsWanted)

C6_DesiredEntries ==
    Reconciled =>
        workshop_maps = [ k \in 1..Len(WantedIds) |-> WorkshopPrefix \o WantedIds[k] ]

\* two collections; the first one's map carries an include tag and an exclude
\* tag and is dropped, the second one's is kept
C6_Witness ==
    /\ Reconciled
    /\ steam.collections = << << << "2" >> >>, << << "1" >> >> >>
    /\ steam.filetype = AllMaps
    /\ steam.tags[<< "2" >>] \cap args.include_tags # { }
    /\ steam.tags[<< "2" >>] \cap args.exclude_tags # { }
    /\ workshop_maps = << Workshop_1 >>

(***************************************************************************)
(* C4: the mapcycle file is written only by a run that is no dry run and   *)
(* whose two remote calls, when collections are given, completed; a dry    *)
(* run and a run with a failed remote call leave the file as it was and    *)
(* make no backup; a failed remote call ends the run with a non-zero exit  *)
(* status before the reconcile step.                                       *)
(***************************************************************************)
C4_WriteOnlyAfterImport ==
    /\ ("written" \in events) =>
          (/\ ~args.dry_run
           /\ (Len(args.collection) > 0
                  => { "collections", "details" } \subseteq events))
    /\ (args.dry_run \/ "remote failure" \in events) => (disk = disk0)
    /\ ("remote failure" \in events) =>
          (/\ pc = "exited"
           /\ exitcode # << >> /\ exitcode[1] # 0
           /\ "reconciled" \notin events
           /\ "written" \notin events)

\* the second remote call failed in a run that would have rewritten an
\* existing file, with a backup
C4_Witness ==
    /\ pc = "exited"
    /\ { "collections", "remote failure" } \subseteq events
    /\ ~args.dry_run
    /\ args.backup
    /\ disk.exists
    /\ workshop_map_ids = << << "1" >> >>
    /\ mapcycle = << Map_c_a >>
    /\ disk = disk0

(***************************************************************************)
(* C7: resolve_workshop_shortname never fails; a short name                *)
(* 'workshop/<id>' whose id is installed under the name N becomes          *)
(* 'workshop/N.ugc<id>', the id as written in the entry; every other       *)
(* entry is returned as it is.                                             *)
(***************************************************************************)
\* the text after 'workshop/'
AfterPrefix(entry) == SubSeq(entry, Len(WorkshopPrefix) + 1, Len(entry))

IsShortForm(entry) == StartsWith(entry, WorkshopPrefix) /\ ~Contains(entry, UgcMarker)

\* the display names the listing holds for the id, written as text
InstalledNames(listing, id) ==
    { RStrip(listing[k].files[1], CharsOf(BspSuffix)) :
        k \in { j \in 1..Len(listing) :
                  listing[j].name = id /\ listing[j].files # << >> } }

C7_ResolveNeverFails ==
    call.fn = "resolve_workshop_shortname" =>
        LET entry == mapcycle[1]
            names == InstalledNames(workshop, AfterPrefix(entry))
        IN  /\ call.result.raised = "None"
            /\ IF IsShortForm(entry) /\ names # { }
               THEN \E N \in names :
                       call.result.value =
                           WorkshopPrefix \o N \o UgcMarker \o AfterPrefix(entry)
               ELSE call.result.value = entry

(***************************************************************************)
(* C8: list_map_shared_prefixes returns a mapping for every document, one  *)
(* without plain names included; its keys are the joins of the first i     *)
(* tokens (i >= 2) that two or more distinct plain names produce, and the  *)
(* plain names that are a string prefix of another plain name; each key    *)
(* maps to the plain names that start with it, in document order; fewer    *)
(* than two plain names give the empty mapping.                            *)
(***************************************************************************)
PlainNames(document) ==
    SelectSeq(document,
        LAMBDA entry : /\ entry # << >>
                       /\ ~StartsWith(entry, CommentMarker)
                       /\ ~StartsWith(entry, WorkshopPrefix))

Tokens(name) == Split(name, "_")

TokenPrefix(name, i) == Join(SubSeq(Tokens(name), 1, i), "_")

\* the joins of i tokens that two or more distinct names produce
SharedTokenPrefixes(names) ==
    { p \in UNION { { TokenPrefix(name, i) : i \in 2..Len(Tokens(name)) } :
                    name \in names } :
        \E n, m \in names :
           /\ n # m
           /\ \E i \in 2..Len(Tokens(n)) :
                 /\ i <= Len(Tokens(m))
                 /\ TokenPrefix(n, i) = p
                 /\ TokenPrefix(m, i) = p }

\* the names that are a string prefix of another name
ContainedNames(names) ==
    { n \in names : \E m \in names : m # n /\ StartsWith(m, n) }

C8_SharedPrefixGroups ==
    call.fn = "list_map_shared_prefixes" =>
        LET plain == PlainNames(mapcycle)
            keys == SharedTokenPrefixes(Range(plain)) \cup ContainedNames(Range(plain))
        IN  /\ call.result.raised = "None"
            /\ DOMAIN call.result.value = keys
            /\ \A key \in keys :
                  call.result.value[key] =
                      SelectSeq(plain, LAMBDA name : StartsWith(name, key))
            /\ Len(plain) < 2 => DOMAIN call.result.value = { }

(***************************************************************************)
(* C9: list_possible_workshop_duplicates has the key 'workshop/<id>' for   *)
(* every workshop entry of the document, short or long, whose id is        *)
(* installed under a name with prefix duplicates in the document, and no   *)
(* other key; without a workshop directory it is empty.                    *)
(***************************************************************************)
\* the text after the last '.ugc'
RECURSIVE AfterUgc(_)
AfterUgc(text) ==
    IF Contains(text, UgcMarker)
    THEN LET k == CHOOSE i \in 1..Len(text) :
                      /\ Slice(text, i - 1, i - 1 + Len(UgcMarker)) = UgcMarker
                      /\ \A j \in 1..(i - 1) :
                            Slice(text, j - 1, j - 1 + Len(UgcMarker)) # UgcMarker
         IN  AfterUgc(SubSeq(text, k + Len(UgcMarker), Len(text)))
    ELSE text

\* the id of a workshop entry, short or long
IdentifierOf(entry) ==
    IF Contains(entry, UgcMarker) THEN AfterUgc(entry) ELSE AfterPrefix(entry)

\* every display name of the files the listing holds for the id
AllInstalledNames(listing, id) ==
    UNION { { RStrip(listing[k].files[f], CharsOf(BspSuffix)) :
                f \in 1..Len(listing[k].files) } :
            k \in { j \in 1..Len(listing) : listing[j].name = id } }

C9_WorkshopDuplicateKeys ==
    call.fn = "list_possible_workshop_duplicates" =>
        DOMAIN call.result =
            IF call.workshop_directory = << >> THEN { }
            ELSE { WorkshopPrefix \o IdentifierOf(entry) :
                     entry \in { e \in Range(WorkshopEntries(mapcycle)) :
                        \E N \in AllInstalledNames(call.workshop_directory[1],
                                                   IdentifierOf(e)) :
                           list_map_prefix_duplicates(N, mapcycle) # { } } }

(***************************************************************************)
(* C10, as claimed: list_map_prefix_duplicates returns the joins P of the  *)
(* first i tokens (2 <= i <= the target's token count) of a plain list     *)
(* entry with at least i tokens such that P is the join of the target's    *)
(* first i tokens, or two or more plain list entries produce P at that     *)
(* length.                                                                 *)
(***************************************************************************)
\* the places of the plain entries with at least i tokens whose first i give p
Producers(plain, i, p) ==
    { k \in 1..Len(plain) :
        Len(Tokens(plain[k])) >= i /\ TokenPrefix(plain[k], i) = p }

====
